---------------------------- MODULE Spec2Model ----------------------------
(***************************************************************************)
(* Model of scripts/windows_build_wheels.py: the scoped helpers push_env   *)
(* and push_dir (with mkdir_p and ContextDecorator), and the sequential    *)
(* programs build_wheel and build_wheels with every external process call  *)
(* either returning or raising CalledProcessError.                         *)
(*                                                                         *)
(* Strings that the script formats or splits are sequences of tokens       *)
(* ("venv-%s" % v is <<"venv-">> \o v), a path is a sequence of such       *)
(* components, and the file system is the pair dirs / files of paths.      *)
(***************************************************************************)
EXTENDS Naturals, Sequences, FiniteSets

VARIABLES
    environ,    \* os.environ: a function from the present names to values
    cwd,        \* os.getcwd()
    dirs,       \* paths that exist as directories
    files,      \* paths that exist as regular files
    wheels,     \* wheels written by successful bdist_wheel runs
    calls,      \* external processes invoked so far, in order
    pc,         \* position of the running program
    exc,        \* the exception propagating out of the program, or "none"
    scopes,     \* the with / try blocks entered and not yet left, innermost last
    kwargs,     \* the keyword arguments of the push_env under test
    pd,         \* the push_dir instance under test (self.__dict__)
    mode,       \* how that instance is used: "with" or "decorator"
    bw,         \* arguments and locals of the running build_wheel
    world,      \* what the external tools and input files hold
    env0,       \* environment on entry of the scope under test
    cwd0,       \* working directory on entry of the scope under test
    touched,    \* names the wrapped operation assigned or deleted
    outcome,    \* how the scope under test was left
    failed_at,  \* the position at which the program raised, or "none"
    nsteps,     \* steps the wrapped operation has taken
    ncalls      \* invocations of the decorated callable so far

vars == <<environ, cwd, dirs, files, wheels, calls, pc, exc, scopes, kwargs,
          pd, mode, bw, world, env0, cwd0, touched, outcome, failed_at,
          nsteps, ncalls>>

(***************************************************************************)
(* Bounds of the model.                                                    *)
(***************************************************************************)
MaxBodySteps == 2
MaxInvocations == 2
MaxManifest == 3

(***************************************************************************)
(* Python values.                                                          *)
(***************************************************************************)
\* The None object: a value no string equals.
None == <<"<None>">>

\* Partial functions from S to T: the dicts with keys in S and values in T.
Dicts(S, T) == UNION {[D -> T] : D \in SUBSET S}

\* None where a path is expected.
NonePath == <<None>>

EmptyDict == [x \in {} |-> None]

Prefixes(path) == {SubSeq(path, 1, i) : i \in 1..Len(path)}

IsUnder(p, root) == Len(p) >= Len(root) /\ SubSeq(p, 1, Len(root)) = root

\* os.path.join(path, name) for one more component.
Join(path, name) == Append(path, name)

(***************************************************************************)
(* mkdir_p                                                                 *)
(***************************************************************************)
\* os.makedirs(path) followed by the except clause: the result is the new
\* set of directories and whether an OSError leaves mkdir_p.
mkdir_p(d, f, path) ==
    IF path \in d
    THEN \* EEXIST and os.path.isdir(path): pass
         [raised |-> FALSE, dirs |-> d]
    ELSE IF Prefixes(path) \cap f # {}
    THEN \* EEXIST on a file, or ENOTDIR on a parent: raise
         [raised |-> TRUE, dirs |-> d]
    ELSE [raised |-> FALSE, dirs |-> d \cup Prefixes(path)]

(***************************************************************************)
(* push_env                                                                *)
(***************************************************************************)
\* Faulty variant: `if value:` in place of `if value is not None:`.
ApplyKwargsTruthy(env, kw) ==
    [v \in (DOMAIN env \ {x \in DOMAIN kw : kw[x] = None \/ kw[x] = <<>>})
            \cup {x \in DOMAIN kw : kw[x] # None /\ kw[x] # <<>>} |->
        IF v \in DOMAIN kw /\ kw[v] # None /\ kw[v] # <<>> THEN kw[v] ELSE env[v]]

\* for var, value in kwargs.items(): set, or delete when present.
ApplyKwargs(env, kw) ==
    [v \in (DOMAIN env \ {x \in DOMAIN kw : kw[x] = None})
            \cup {x \in DOMAIN kw : kw[x] # None} |->
        IF v \in DOMAIN kw /\ kw[v] # None THEN kw[v] ELSE env[v]]

\* Faulty variant: the copy loop without os.environ.clear().
RestoreEnvMerge(env, saved_env) ==
    [v \in DOMAIN env \cup DOMAIN saved_env |->
        IF v \in DOMAIN saved_env THEN saved_env[v] ELSE env[v]]

\* os.environ.clear() and the loop that copies saved_env back.
RestoreEnv(env, saved_env) ==
    LET cleared == EmptyDict
    IN  [v \in DOMAIN cleared \cup DOMAIN saved_env |->
            IF v \in DOMAIN saved_env THEN saved_env[v] ELSE cleared[v]]

\* The generator up to its yield: the scope record holds the local saved_env.
PushEnvEnter(env, kw) ==
    [environ |-> ApplyKwargs(env, kw),
     scope   |-> [kind |-> "push_env", saved_env |-> env]]

\* The with block ends normally: the generator resumes after the yield.
PushEnvExit(env, scope) == RestoreEnv(env, scope.saved_env)

\* The with block raises: contextmanager throws the exception into the
\* generator at the yield, which has no try around it, so the statements
\* after the yield do not run and the exception leaves the generator.
PushEnvThrow(env, scope) == env

(***************************************************************************)
(* ContextDecorator and push_dir                                           *)
(***************************************************************************)
\* push_dir.__init__
NewPushDir(directory, make_directory) ==
    [directory |-> directory, make_directory |-> make_directory,
     old_cwd |-> NonePath]

\* `if self.directory:` is false for None and for the empty string.
Truthy(directory) == directory # NonePath /\ directory # <<>>

\* push_dir.__enter__: the new instance state, process state and whether
\* mkdir_p or os.chdir raised (then __exit__ is never called).
PushDirEnter(self, d, f, wd) ==
    LET self1 == [self EXCEPT !.old_cwd = wd]
        made  == IF Truthy(self.directory) /\ self.make_directory
                 THEN mkdir_p(d, f, self.directory)
                 ELSE [raised |-> FALSE, dirs |-> d]
    IN  IF ~Truthy(self.directory)
        THEN [self |-> self1, dirs |-> d, cwd |-> wd, raised |-> FALSE]
        ELSE IF made.raised \/ self.directory \notin made.dirs
        THEN [self |-> self1, dirs |-> made.dirs, cwd |-> wd, raised |-> TRUE]
        ELSE [self |-> self1, dirs |-> made.dirs, cwd |-> self.directory,
              raised |-> FALSE]

\* Faulty variant: the inherited ContextDecorator.__exit__, which is `pass`.
ContextDecoratorExit(self, wd) == wd

\* push_dir.__exit__: os.chdir(self.old_cwd).
PushDirExit(self, wd) == self.old_cwd

\* The value __exit__ returns is None: an exception of the block is not
\* suppressed.
ExitSuppresses(self) == FALSE

(***************************************************************************)
(* Exception propagation through the entered scopes, innermost first.      *)
(***************************************************************************)
\* Faulty variant: no finally block, the file is left behind.
FinallyBlockSkipped(st, scope) == st

\* The finally block of build_wheel's query step: script_file.close() and
\* os.remove(script_file.name).  When NamedTemporaryFile itself raised,
\* script_file is unbound and the block raises in its first statement.
FinallyBlock(st, scope) ==
    IF scope.script_file = NonePath
    THEN [st EXCEPT !.exc = "UnboundLocalError"]
    ELSE [st EXCEPT !.files = st.files \ {scope.script_file}]

UnwindOne(st, scope) ==
    IF scope.kind = "push_env"
    THEN [st EXCEPT !.environ = PushEnvThrow(st.environ, scope)]
    ELSE IF scope.kind = "push_dir"
    THEN [st EXCEPT !.cwd = PushDirExit(scope.self, st.cwd),
                    !.exc = IF ExitSuppresses(scope.self) THEN "none" ELSE st.exc]
    ELSE FinallyBlock(st, scope)

RECURSIVE Unwind(_, _)
Unwind(st, sc) ==
    IF sc = <<>> THEN st
    ELSE Unwind(UnwindOne(st, sc[Len(sc)]), SubSeq(sc, 1, Len(sc) - 1))

\* An exception e is raised at the current position, inside the scopes sc,
\* and leaves every one of them.
RaiseIn(e, sc) ==
    LET st == Unwind([environ |-> environ, cwd |-> cwd, files |-> files,
                      exc |-> e], sc)
    IN  /\ environ' = st.environ
        /\ cwd' = st.cwd
        /\ files' = st.files
        /\ exc' = st.exc
        /\ scopes' = <<>>
        /\ failed_at' = pc
        /\ pc' = "aborted"

Raise(e) == RaiseIn(e, scopes)

(***************************************************************************)
(* push_env around an arbitrary operation.                                 *)
(***************************************************************************)
EnvNames == {"PATH", "FOO"}
EnvValues == {<<>>, <<"x">>}

NoBuild == [python_version |-> <<>>, n |-> 0, caller |-> "none",
            single_wheel |-> FALSE, script_file |-> NonePath,
            build_env |-> EmptyDict, wheel_names |-> <<>>, i |-> 0]

NoWorld == [manifest |-> <<>>, produced |-> {}, generators |-> FALSE,
            generator_env |-> EmptyDict,
            dirs0 |-> {}, files0 |-> {}]

InitEnv ==
    /\ environ \in Dicts(EnvNames, EnvValues)
    /\ kwargs \in Dicts(EnvNames, EnvValues \cup {None})
    /\ env0 = environ
    /\ pc = "env_call"
    /\ cwd = <<>> /\ dirs = {<<>>} /\ files = {} /\ wheels = {} /\ calls = <<>>
    /\ exc = "none" /\ scopes = <<>>
    /\ pd = NewPushDir(NonePath, FALSE) /\ mode = "with"
    /\ bw = NoBuild /\ world = NoWorld
    /\ cwd0 = <<>> /\ touched = {} /\ outcome = "none" /\ failed_at = "none"
    /\ nsteps = 0 /\ ncalls = 0

\* with push_env(**kwargs): the generator runs to its yield.
EnvEnter ==
    /\ pc = "env_call"
    /\ LET r == PushEnvEnter(environ, kwargs)
       IN  /\ environ' = r.environ
           /\ scopes' = Append(scopes, r.scope)
    /\ pc' = "env_body"
    /\ UNCHANGED <<cwd, dirs, files, wheels, calls, exc, kwargs, pd, mode, bw,
                   world, env0, cwd0, touched, outcome, failed_at, nsteps, ncalls>>

\* The wrapped operation assigns os.environ[v].
EnvBodySet ==
    /\ pc = "env_body"
    /\ nsteps < MaxBodySteps
    /\ \E v \in EnvNames, x \in EnvValues :
        /\ environ' = [w \in DOMAIN environ \cup {v} |->
                          IF w = v THEN x ELSE environ[w]]
        /\ touched' = touched \cup {v}
    /\ nsteps' = nsteps + 1
    /\ UNCHANGED <<cwd, dirs, files, wheels, calls, pc, exc, scopes, kwargs, pd,
                   mode, bw, world, env0, cwd0, outcome, failed_at, ncalls>>

\* The wrapped operation deletes os.environ[v].
EnvBodyDel ==
    /\ pc = "env_body"
    /\ nsteps < MaxBodySteps
    /\ \E v \in DOMAIN environ :
        /\ environ' = [w \in DOMAIN environ \ {v} |-> environ[w]]
        /\ touched' = touched \cup {v}
    /\ nsteps' = nsteps + 1
    /\ UNCHANGED <<cwd, dirs, files, wheels, calls, pc, exc, scopes, kwargs, pd,
                   mode, bw, world, env0, cwd0, outcome, failed_at, ncalls>>

\* The wrapped operation returns: the with statement resumes the generator.
EnvBodyReturn ==
    /\ pc = "env_body"
    /\ environ' = PushEnvExit(environ, scopes[Len(scopes)])
    /\ scopes' = SubSeq(scopes, 1, Len(scopes) - 1)
    /\ outcome' = "returned"
    /\ pc' = "env_done"
    /\ UNCHANGED <<cwd, dirs, files, wheels, calls, exc, kwargs, pd, mode, bw,
                   world, env0, cwd0, touched, failed_at, nsteps, ncalls>>

\* The wrapped operation raises.
EnvBodyRaise ==
    /\ pc = "env_body"
    /\ Raise("BodyError")
    /\ outcome' = "raised"
    /\ UNCHANGED <<dirs, wheels, calls, kwargs, pd, mode, bw, world, env0, cwd0,
                   touched, nsteps, ncalls>>

NextEnv == EnvEnter \/ EnvBodySet \/ EnvBodyDel \/ EnvBodyReturn \/ EnvBodyRaise

SpecEnv == InitEnv /\ [][NextEnv]_vars

(***************************************************************************)
(* push_dir around an arbitrary operation, as a with block or as the       *)
(* decorator of a callable that is invoked repeatedly.                     *)
(***************************************************************************)
DirA == <<<<"a">>>>
DirAB == <<<<"a">>, <<"b">>>>
DirC == <<<<"c">>>>
HarnessPaths == {DirA, DirAB, DirC}

\* The file systems over HarnessPaths: every directory's parent exists, and
\* at most one of the remaining paths is a regular file.
HarnessDirSets ==
    {D \cup {<<>>} : D \in {S \in SUBSET HarnessPaths : DirAB \in S => DirA \in S}}

HarnessFileSets(D) ==
    {{}} \cup {{p} : p \in {q \in HarnessPaths \ D :
                               SubSeq(q, 1, Len(q) - 1) \in D}}

InitDir ==
    /\ dirs \in HarnessDirSets
    /\ files \in HarnessFileSets(dirs)
    /\ cwd \in dirs
    /\ \E directory \in HarnessPaths \cup {NonePath}, make_directory \in BOOLEAN :
          pd = NewPushDir(directory, make_directory)
    /\ mode \in {"with", "decorator"}
    /\ pc = "dir_call"
    /\ cwd0 = cwd
    /\ environ = EmptyDict /\ kwargs = EmptyDict /\ env0 = EmptyDict
    /\ wheels = {} /\ calls = <<>> /\ exc = "none" /\ scopes = <<>>
    /\ bw = NoBuild /\ world = [NoWorld EXCEPT !.dirs0 = dirs]
    /\ touched = {} /\ outcome = "none" /\ failed_at = "none"
    /\ nsteps = 0 /\ ncalls = 0

\* `with self:` (written out, or inside ContextDecorator.__call__'s inner):
\* __enter__ runs; when it raises, the block and __exit__ do not run.
DirEnter ==
    /\ pc = "dir_call"
    /\ LET r == PushDirEnter(pd, dirs, files, cwd)
       IN  /\ pd' = r.self
           /\ dirs' = r.dirs
           /\ cwd' = r.cwd
           /\ IF r.raised
              THEN /\ exc' = "OSError"
                   /\ outcome' = "enter_raised"
                   /\ pc' = "dir_done"
                   /\ scopes' = scopes
              ELSE /\ exc' = "none"
                   /\ outcome' = "none"
                   /\ pc' = "dir_body"
                   /\ scopes' = Append(scopes, [kind |-> "push_dir", self |-> r.self])
    /\ cwd0' = cwd
    /\ ncalls' = ncalls + 1
    /\ nsteps' = 0
    /\ UNCHANGED <<environ, files, wheels, calls, kwargs, mode, bw, world, env0,
                   touched, failed_at>>

\* The wrapped operation changes the working directory.
DirBodyChdir ==
    /\ pc = "dir_body"
    /\ nsteps < MaxBodySteps
    /\ \E d \in dirs \ {cwd} : cwd' = d
    /\ nsteps' = nsteps + 1
    /\ UNCHANGED <<environ, dirs, files, wheels, calls, pc, exc, scopes, kwargs,
                   pd, mode, bw, world, env0, cwd0, touched, outcome, failed_at,
                   ncalls>>

\* The wrapped operation returns: __exit__(None, None, None).
DirBodyReturn ==
    /\ pc = "dir_body"
    /\ cwd' = PushDirExit(scopes[Len(scopes)].self, cwd)
    /\ scopes' = SubSeq(scopes, 1, Len(scopes) - 1)
    /\ outcome' = "returned"
    /\ pc' = "dir_done"
    /\ UNCHANGED <<environ, dirs, files, wheels, calls, exc, kwargs, pd, mode, bw,
                   world, env0, cwd0, touched, failed_at, nsteps, ncalls>>

\* The wrapped operation raises: __exit__(typ, val, traceback).
DirBodyRaise ==
    /\ pc = "dir_body"
    /\ Raise("BodyError")
    /\ outcome' = "raised"
    /\ UNCHANGED <<dirs, wheels, calls, kwargs, pd, mode, bw, world, env0, cwd0,
                   touched, nsteps, ncalls>>

\* The decorated callable is invoked again, from wherever its caller is
\* by then.
DirCallAgain ==
    /\ pc \in {"dir_done", "aborted"}
    /\ mode = "decorator"
    /\ ncalls < MaxInvocations
    /\ \E d \in dirs : cwd' = d
    /\ pc' = "dir_call"
    /\ exc' = "none"
    /\ outcome' = "none"
    /\ failed_at' = "none"
    /\ UNCHANGED <<environ, dirs, files, wheels, calls, scopes, kwargs, pd, mode,
                   bw, world, env0, cwd0, touched, nsteps, ncalls>>

NextDir == DirEnter \/ DirBodyChdir \/ DirBodyReturn \/ DirBodyRaise \/ DirCallAgain

SpecDir == InitDir /\ [][NextDir]_vars


(***************************************************************************)
(* Paths and strings of the build.                                         *)
(***************************************************************************)
V27 == <<"27", "-", "x64">>
V35 == <<"35", "-", "x64">>
V36 == <<"36", "-", "x64">>

\* The versions build_wheels names, in the order of its statements.
PYTHON_VERSIONS == <<V27, V35, V36>>

ROOT_DIR == <<<<"ROOT">>>>
STANDALONE_DIR == Join(ROOT_DIR, <<"standalone-build">>)

\* "C:/Python%s" % python_version
PythonDir(v) == <<<<"C:">>, <<"Python">> \o v>>

\* os.path.join(ROOT_DIR, "venv-%s" % python_version)
VenvDir(v) == Join(ROOT_DIR, <<"venv-">> \o v)

\* "C:/P/IPP/ITK-win_%s" % python_version
BuildPath(v) == <<<<"C:">>, <<"P">>, <<"IPP">>, <<"ITK-win_">> \o v>>

\* os.path.join(build_path, "Wrapping", "Generators")
GeneratorsDir(v) == BuildPath(v) \o <<<<"Wrapping">>, <<"Generators">>>>

\* The name NamedTemporaryFile(delete=False, suffix=".py") gives its file.
TempFile == <<<<"TEMP">>, <<"tmp", ".", "py">>>>

RECURSIVE PathStr(_)
PathStr(p) ==
    IF p = <<>> THEN <<>>
    ELSE IF Len(p) = 1 THEN p[1]
    ELSE p[1] \o <<"/">> \o PathStr(Tail(p))

\* "%s:%s" % (path, os.environ["PATH"]) with path = venv_dir/Scripts
PathValue(v, old) == PathStr(Join(VenvDir(v), <<"Scripts">>)) \o <<":">> \o old

\* os.path.splitext(filename)[1]: from the last dot on, unless only dots
\* come before it.
Splitext(name) ==
    LET dots == {i \in 1..Len(name) : name[i] = "."}
    IN  IF dots = {} THEN <<>>
        ELSE LET d == CHOOSE i \in dots : \A j \in dots : j <= i
             IN  IF \E j \in 1..(d - 1) : name[j] # "."
                 THEN SubSeq(name, d, Len(name))
                 ELSE <<>>

\* Faulty variant: ".obj" missing from the list.
IntermediateExtensionsNoObj == {<<".", "cpp">>, <<".", "xml">>}

\* The list the extension is looked up in.
IntermediateExtensions == {<<".", "cpp">>, <<".", "xml">>, <<".", "obj">>}

\* Faulty variant: the first line without its newline.
ReadlineStripped(content) ==
    LET nl == {i \in 1..Len(content) : content[i] = "\n"}
    IN  IF nl = {} THEN content
        ELSE SubSeq(content, 1, (CHOOSE i \in nl : \A j \in nl : i <= j) - 1)

\* content.readline(): up to and including the first newline.
Readline(content) ==
    LET nl == {i \in 1..Len(content) : content[i] = "\n"}
    IN  IF nl = {} THEN content
        ELSE SubSeq(content, 1, CHOOSE i \in nl : \A j \in nl : i <= j)

\* shutil.rmtree(path) on an existing directory.
RmtreeDirs(d, path) == {q \in d : ~IsUnder(q, path)}
RmtreeFiles(f, path) == {q \in f : ~IsUnder(q, path)}

(***************************************************************************)
(* External processes.                                                     *)
(***************************************************************************)
ExitStatuses == {0, 1}

\* Faulty variant: subprocess.call, which returns the status.
CallIgnoresStatus(status) == FALSE

\* check_call / check_output raise CalledProcessError on a non-zero status.
CheckCallRaises(status) == status # 0

Cmd(tool, what, arg, v, status) ==
    [tool |-> tool, what |-> what, arg |-> arg, version |-> v, status |-> status]

\* What a successful build leaves in the build tree of version v.
ProducedFiles(v) == {BuildPath(v) \o rel : rel \in world.produced}

ProducedDirs(v) ==
    Prefixes(BuildPath(v))
    \cup UNION {Prefixes(SubSeq(f, 1, Len(f) - 1)) : f \in ProducedFiles(v)}
    \cup (IF world.generators THEN Prefixes(GeneratorsDir(v)) ELSE {})

NewBuild(v, n, caller, single_wheel) ==
    [python_version |-> v, n |-> n, caller |-> caller,
     single_wheel |-> single_wheel, script_file |-> NonePath,
     build_env |-> EmptyDict, wheel_names |-> <<>>, i |-> 0]

harnessVars == <<kwargs, pd, mode, env0, cwd0, touched, outcome, nsteps, ncalls>>

\* The step leaves the process state alone and goes on at `next`.
Goto(next) ==
    /\ pc' = next
    /\ UNCHANGED <<environ, cwd, files, exc, scopes, failed_at>>

(***************************************************************************)
(* prepare_build_env                                                       *)
(***************************************************************************)
\* Faulty variant: no existence check.
PythonRootUnchecked(v, d) == FALSE

\* if not os.path.exists(python_dir):
PythonRootMissing(v, d) == PythonDir(v) \notin d

\* Lines 113-120: the existence checks.
PrepCheck ==
    /\ pc = "prep_check"
    /\ LET v == PYTHON_VERSIONS[bw.n]
       IN  IF PythonRootMissing(v, dirs)
           THEN Raise("FileNotFoundError")
           ELSE Goto(IF VenvDir(v) \in dirs THEN "prep_pip" ELSE "prep_venv")
    /\ UNCHANGED <<dirs, wheels, calls, bw, world, harnessVars>>

\* check_call([venv, venv_dir])
PrepVenv ==
    /\ pc = "prep_venv"
    /\ \E status \in ExitStatuses :
        LET v == PYTHON_VERSIONS[bw.n]
        IN  /\ calls' = Append(calls, Cmd("virtualenv", "create", <<>>, v, status))
            /\ IF CheckCallRaises(status)
               THEN Raise("CalledProcessError") /\ dirs' = dirs
               ELSE Goto("prep_pip") /\ dirs' = dirs \cup Prefixes(VenvDir(v))
    /\ UNCHANGED <<wheels, bw, world, harnessVars>>

\* pip_install(venv_dir, "scikit-build"), then the next statement of
\* build_wheels.
PrepPip ==
    /\ pc = "prep_pip"
    /\ \E status \in ExitStatuses :
        LET v == PYTHON_VERSIONS[bw.n]
        IN  /\ calls' = Append(calls,
                          Cmd("pip", "install", <<"scikit-build">>, v, status))
            /\ IF CheckCallRaises(status)
               THEN Raise("CalledProcessError") /\ bw' = bw
               ELSE IF bw.n < Len(PYTHON_VERSIONS)
               THEN Goto("prep_check") /\ bw' = [bw EXCEPT !.n = bw.n + 1]
               ELSE Goto("sa_enter") /\ bw' = bw
    /\ UNCHANGED <<dirs, wheels, world, harnessVars>>

(***************************************************************************)
(* build_wheels: the standalone build                                      *)
(***************************************************************************)
\* with push_dir(directory=STANDALONE_DIR, make_directory=True):
SaEnter ==
    /\ pc = "sa_enter"
    /\ LET r == PushDirEnter(NewPushDir(STANDALONE_DIR, TRUE), dirs, files, cwd)
       IN  /\ dirs' = r.dirs
           /\ IF r.raised
              THEN Raise("OSError")
              ELSE /\ cwd' = r.cwd
                   /\ scopes' = Append(scopes, [kind |-> "push_dir", self |-> r.self])
                   /\ pc' = "sa_pip"
                   /\ UNCHANGED <<environ, files, exc, failed_at>>
    /\ UNCHANGED <<wheels, calls, bw, world, harnessVars>>

\* pip_install(tools_venv, "ninja")
SaPip ==
    /\ pc = "sa_pip"
    /\ \E status \in ExitStatuses :
        /\ calls' = Append(calls, Cmd("pip", "install", <<"ninja">>, V27, status))
        /\ IF CheckCallRaises(status)
           THEN Raise("CalledProcessError")
           ELSE Goto("sa_cmake")
    /\ UNCHANGED <<dirs, wheels, bw, world, harnessVars>>

\* check_call([cmake_executable, ..., ROOT_DIR])
SaCmake ==
    /\ pc = "sa_cmake"
    /\ \E status \in ExitStatuses :
        /\ calls' = Append(calls, Cmd("cmake", "standalone", <<>>, <<>>, status))
        /\ IF CheckCallRaises(status)
           THEN Raise("CalledProcessError")
           ELSE Goto("sa_ninja")
    /\ UNCHANGED <<dirs, wheels, bw, world, harnessVars>>

\* check_call([ninja_executable])
SaNinja ==
    /\ pc = "sa_ninja"
    /\ \E status \in ExitStatuses :
        /\ calls' = Append(calls, Cmd("ninja", "standalone", <<>>, <<>>, status))
        /\ IF CheckCallRaises(status)
           THEN Raise("CalledProcessError")
           ELSE Goto("sa_exit")
    /\ UNCHANGED <<dirs, wheels, bw, world, harnessVars>>

\* The with block ends; build_wheel("27-x64", single_wheel=False) is called.
SaExit ==
    /\ pc = "sa_exit"
    /\ cwd' = PushDirExit(scopes[Len(scopes)].self, cwd)
    /\ scopes' = SubSeq(scopes, 1, Len(scopes) - 1)
    /\ bw' = NewBuild(PYTHON_VERSIONS[1], 1, "build_wheels", FALSE)
    /\ pc' = "bw_env"
    /\ UNCHANGED <<environ, dirs, files, wheels, calls, exc, world, failed_at,
                   harnessVars>>


(***************************************************************************)
(* build_wheel                                                             *)
(***************************************************************************)
\* with push_env(PATH="%s:%s" % (path, os.environ["PATH"])):
BwEnv ==
    /\ pc = "bw_env"
    /\ IF "PATH" \notin DOMAIN environ
       THEN Raise("KeyError")
       ELSE LET kw == [x \in {"PATH"} |-> PathValue(bw.python_version, environ["PATH"])]
                r  == PushEnvEnter(environ, kw)
            IN  /\ environ' = r.environ
                /\ scopes' = Append(scopes, r.scope)
                /\ pc' = "bw_deps"
                /\ UNCHANGED <<cwd, files, exc, failed_at>>
    /\ UNCHANGED <<dirs, wheels, calls, bw, world, harnessVars>>

\* check_call([pip, "install", "-r", requirements-dev.txt])
BwDeps ==
    /\ pc = "bw_deps"
    /\ \E status \in ExitStatuses :
        /\ calls' = Append(calls, Cmd("pip", "install",
                             <<"-r", "requirements-dev.txt">>, bw.python_version, status))
        /\ IF CheckCallRaises(status)
           THEN Raise("CalledProcessError")
           ELSE Goto("bw_rmtree")
    /\ UNCHANGED <<dirs, wheels, bw, world, harnessVars>>

\* if os.path.exists(build_path): shutil.rmtree(build_path); if single_wheel:
BwRmtree ==
    /\ pc = "bw_rmtree"
    /\ LET build_path == BuildPath(bw.python_version)
       IN  IF build_path \in dirs
           THEN /\ dirs' = RmtreeDirs(dirs, build_path)
                /\ files' = RmtreeFiles(files, build_path)
           ELSE UNCHANGED <<dirs, files>>
    /\ pc' = IF bw.single_wheel THEN "sw_configure" ELSE "mw_tmp"
    /\ UNCHANGED <<environ, cwd, wheels, calls, exc, scopes, bw, world, failed_at,
                   harnessVars>>

\* check_call([python_executable, setup_py_configure, "itk"])
SwConfigure ==
    /\ pc = "sw_configure"
    /\ \E status \in ExitStatuses :
        /\ calls' = Append(calls, Cmd("python", "setup_py_configure", <<"itk">>,
                                      bw.python_version, status))
        /\ IF CheckCallRaises(status)
           THEN Raise("CalledProcessError")
           ELSE Goto("sw_bdist")
    /\ UNCHANGED <<dirs, wheels, bw, world, harnessVars>>

\* check_call([python_executable, "setup.py", "bdist_wheel", ...]): the
\* build configures and builds ITK in build_path and writes the wheel.
SwBdist ==
    /\ pc = "sw_bdist"
    /\ \E status \in ExitStatuses :
        LET v == bw.python_version
        IN  /\ calls' = Append(calls, Cmd("python", "bdist_wheel", <<>>, v, status))
            /\ IF CheckCallRaises(status)
               THEN Raise("CalledProcessError") /\ UNCHANGED <<dirs, wheels>>
               ELSE /\ pc' = "sw_clean"
                    /\ dirs' = dirs \cup ProducedDirs(v)
                    /\ files' = files \cup ProducedFiles(v)
                    /\ wheels' = wheels \cup {<<v, <<"itk">>>>}
                    /\ UNCHANGED <<environ, cwd, exc, scopes, failed_at>>
    /\ UNCHANGED <<bw, world, harnessVars>>

\* check_call([python_executable, "setup.py", "clean"])
SwClean ==
    /\ pc = "sw_clean"
    /\ \E status \in ExitStatuses :
        /\ calls' = Append(calls, Cmd("python", "clean", <<>>,
                                      bw.python_version, status))
        /\ IF CheckCallRaises(status)
           THEN Raise("CalledProcessError")
           ELSE Goto("bw_cleanup")
    /\ UNCHANGED <<dirs, wheels, bw, world, harnessVars>>

\* try: script_file = tempfile.NamedTemporaryFile(delete=False, suffix=".py")
MwTmp ==
    /\ pc = "mw_tmp"
    /\ \E created \in BOOLEAN :
        IF created
        THEN /\ files' = files \cup {TempFile}
             /\ bw' = [bw EXCEPT !.script_file = TempFile]
             /\ scopes' = Append(scopes, [kind |-> "try", script_file |-> TempFile])
             /\ pc' = "mw_write"
             /\ UNCHANGED <<environ, cwd, exc, failed_at>>
        ELSE /\ RaiseIn("OSError",
                        Append(scopes, [kind |-> "try", script_file |-> NonePath]))
             /\ bw' = bw
    /\ UNCHANGED <<dirs, wheels, calls, world, harnessVars>>

\* script_file.write(...); script_file.file.flush()
MwWrite ==
    /\ pc = "mw_write"
    /\ \E written \in BOOLEAN :
        IF written THEN Goto("mw_query") ELSE Raise("OSError")
    /\ UNCHANGED <<dirs, wheels, calls, bw, world, harnessVars>>

\* output = check_output([python_executable, script_file.name])
MwQuery ==
    /\ pc = "mw_query"
    /\ \E status \in ExitStatuses :
        /\ calls' = Append(calls, Cmd("python", "script_file", <<>>,
                                      bw.python_version, status))
        /\ IF CheckCallRaises(status)
           THEN Raise("CalledProcessError")
           ELSE Goto("mw_parse")
    /\ UNCHANGED <<dirs, wheels, bw, world, harnessVars>>

\* build_env = json.loads(output.decode("utf-8").strip())
MwParse ==
    /\ pc = "mw_parse"
    /\ \E parsed \in BOOLEAN :
        IF parsed
        THEN Goto("mw_finally") /\ bw' = [bw EXCEPT !.build_env = world.generator_env]
        ELSE Raise("ValueError") /\ bw' = bw
    /\ UNCHANGED <<dirs, wheels, calls, world, harnessVars>>

\* finally: reached without an exception.
MwFinally ==
    /\ pc = "mw_finally"
    /\ LET st == FinallyBlock([environ |-> environ, cwd |-> cwd, files |-> files,
                               exc |-> exc], scopes[Len(scopes)])
       IN  files' = st.files
    /\ scopes' = SubSeq(scopes, 1, Len(scopes) - 1)
    /\ pc' = "mw_enter"
    /\ UNCHANGED <<environ, cwd, dirs, wheels, calls, exc, bw, world, failed_at,
                   harnessVars>>

\* with push_dir(directory=build_path, make_directory=True), push_env(**build_env):
MwEnter ==
    /\ pc = "mw_enter"
    /\ LET r == PushDirEnter(NewPushDir(BuildPath(bw.python_version), TRUE),
                             dirs, files, cwd)
           e == PushEnvEnter(environ, bw.build_env)
       IN  /\ dirs' = r.dirs
           /\ IF r.raised
              THEN Raise("OSError")
              ELSE /\ cwd' = r.cwd
                   /\ environ' = e.environ
                   /\ scopes' = scopes \o <<[kind |-> "push_dir", self |-> r.self],
                                           e.scope>>
                   /\ pc' = "mw_cmake"
                   /\ UNCHANGED <<files, exc, failed_at>>
    /\ UNCHANGED <<wheels, calls, bw, world, harnessVars>>

\* check_call(["cmake", ..., source_path])
MwCmake ==
    /\ pc = "mw_cmake"
    /\ \E status \in ExitStatuses :
        /\ calls' = Append(calls, Cmd("cmake", "ITK", <<>>, bw.python_version, status))
        /\ IF CheckCallRaises(status)
           THEN Raise("CalledProcessError")
           ELSE Goto("mw_ninja")
    /\ UNCHANGED <<dirs, wheels, bw, world, harnessVars>>

\* check_call([ninja_executable]): the build fills build_path.
MwNinja ==
    /\ pc = "mw_ninja"
    /\ \E status \in ExitStatuses :
        LET v == bw.python_version
        IN  /\ calls' = Append(calls, Cmd("ninja", "ITK", <<>>, v, status))
            /\ IF CheckCallRaises(status)
               THEN Raise("CalledProcessError") /\ dirs' = dirs
               ELSE /\ pc' = "mw_exit"
                    /\ dirs' = dirs \cup ProducedDirs(v)
                    /\ files' = files \cup ProducedFiles(v)
                    /\ UNCHANGED <<environ, cwd, exc, scopes, failed_at>>
    /\ UNCHANGED <<wheels, bw, world, harnessVars>>

\* The with block ends: push_env's generator resumes, then push_dir.__exit__.
MwExit ==
    /\ pc = "mw_exit"
    /\ environ' = PushEnvExit(environ, scopes[Len(scopes)])
    /\ cwd' = PushDirExit(scopes[Len(scopes) - 1].self, cwd)
    /\ scopes' = SubSeq(scopes, 1, Len(scopes) - 2)
    /\ pc' = "mw_read"
    /\ UNCHANGED <<dirs, files, wheels, calls, exc, bw, world, failed_at, harnessVars>>

\* wheel_names = content.readline(); for wheel_name in wheel_names:
MwRead ==
    /\ pc = "mw_read"
    /\ LET wheel_names == Readline(world.manifest)
       IN  /\ bw' = [bw EXCEPT !.wheel_names = wheel_names, !.i = 1]
           /\ pc' = IF wheel_names = <<>> THEN "bw_cleanup" ELSE "mw_configure"
    /\ UNCHANGED <<environ, cwd, dirs, files, wheels, calls, exc, scopes, world,
                   failed_at, harnessVars>>

\* check_call([python_executable, setup_py_configure, wheel_name])
MwConfigure ==
    /\ pc = "mw_configure"
    /\ \E status \in ExitStatuses :
        /\ calls' = Append(calls, Cmd("python", "setup_py_configure",
                             <<bw.wheel_names[bw.i]>>, bw.python_version, status))
        /\ IF CheckCallRaises(status)
           THEN Raise("CalledProcessError")
           ELSE Goto("mw_bdist")
    /\ UNCHANGED <<dirs, wheels, bw, world, harnessVars>>

\* check_call([python_executable, "setup.py", "bdist_wheel", ...,
\*   "-DITKPythonPackage_ITK_BINARY_REUSE:BOOL=ON",
\*   "-DITKPythonPackage_WHEEL_NAME:STRING=%s" % wheel_name, ...])
MwBdist ==
    /\ pc = "mw_bdist"
    /\ \E status \in ExitStatuses :
        LET v == bw.python_version
            wheel_name == <<bw.wheel_names[bw.i]>>
        IN  /\ calls' = Append(calls, Cmd("python", "bdist_wheel_reuse",
                                          wheel_name, v, status))
            /\ IF CheckCallRaises(status)
               THEN Raise("CalledProcessError") /\ wheels' = wheels
               ELSE Goto("mw_clean") /\ wheels' = wheels \cup {<<v, wheel_name>>}
    /\ UNCHANGED <<dirs, bw, world, harnessVars>>

\* check_call([python_executable, "setup.py", "clean"]), then the next
\* wheel_name.
MwClean ==
    /\ pc = "mw_clean"
    /\ \E status \in ExitStatuses :
        /\ calls' = Append(calls, Cmd("python", "clean", <<>>,
                                      bw.python_version, status))
        /\ IF CheckCallRaises(status)
           THEN Raise("CalledProcessError") /\ bw' = bw
           ELSE /\ Goto(IF bw.i < Len(bw.wheel_names)
                        THEN "mw_configure" ELSE "bw_cleanup")
                /\ bw' = [bw EXCEPT !.i = bw.i + 1]
    /\ UNCHANGED <<dirs, wheels, world, harnessVars>>

\* for root, _, file_list in os.walk(build_path): remove by extension.
BwCleanup ==
    /\ pc = "bw_cleanup"
    /\ files' = {f \in files :
                   ~(/\ IsUnder(f, BuildPath(bw.python_version))
                     /\ Splitext(f[Len(f)]) \in IntermediateExtensions)}
    /\ pc' = "bw_rmgen"
    /\ UNCHANGED <<environ, cwd, dirs, wheels, calls, exc, scopes, bw, world,
                   failed_at, harnessVars>>

\* shutil.rmtree(os.path.join(build_path, "Wrapping", "Generators"))
BwRmGenerators ==
    /\ pc = "bw_rmgen"
    /\ LET g == GeneratorsDir(bw.python_version)
       IN  IF g \notin dirs
           THEN Raise("FileNotFoundError") /\ dirs' = dirs
           ELSE /\ dirs' = RmtreeDirs(dirs, g)
                /\ files' = RmtreeFiles(files, g)
                /\ pc' = "bw_exit"
                /\ UNCHANGED <<environ, cwd, exc, scopes, failed_at>>
    /\ UNCHANGED <<wheels, calls, bw, world, harnessVars>>

\* The with push_env block ends and build_wheel returns; build_wheels calls
\* it for the next version.
BwExit ==
    /\ pc = "bw_exit"
    /\ environ' = PushEnvExit(environ, scopes[Len(scopes)])
    /\ scopes' = SubSeq(scopes, 1, Len(scopes) - 1)
    /\ IF bw.caller = "build_wheels" /\ bw.n < Len(PYTHON_VERSIONS)
       THEN /\ bw' = NewBuild(PYTHON_VERSIONS[bw.n + 1], bw.n + 1, "build_wheels",
                              bw.single_wheel)
            /\ pc' = "bw_env"
       ELSE /\ bw' = bw
            /\ pc' = "done"
    /\ UNCHANGED <<cwd, dirs, files, wheels, calls, exc, world, failed_at,
                   harnessVars>>


(***************************************************************************)
(* The inputs of a run: the process state and file system the script is    *)
(* started in, the manifest WHEEL_NAMES.txt, and what the external tools   *)
(* produce.                                                                *)
(***************************************************************************)
BoundedSeq(S, n) == UNION {[1..k -> S] : k \in 0..n}

ManifestChars == {"a", "b", "\n"}
Manifests == BoundedSeq(ManifestChars, MaxManifest)

\* Files a build may leave in the build tree, relative to it.
RootCpp == <<<<"a", ".", "cpp">>>>
ModXml == <<<<"Modules">>, <<"a", ".", "xml">>>>
ModObj == <<<<"Modules">>, <<"b", ".", "tar", ".", "obj">>>>
ModTxt == <<<<"Modules">>, <<"a", ".", "cpp", ".", "txt">>>>
DotCpp == <<<<".", "cpp">>>>
GenTxt == <<<<"Wrapping">>, <<"Generators">>, <<"castxml", ".", "exe">>>>
GenXml == <<<<"Wrapping">>, <<"Generators">>, <<"a", ".", "xml">>>>
ProducedUniverse == {RootCpp, ModXml, ModObj, ModTxt, DotCpp, GenTxt, GenXml}

\* generator.env as printed by the helper program.
GeneratorEnvs == {EmptyDict, [x \in {"PATH", "INCLUDE"} |-> <<"vs">>]}

StartEnvs == {[x \in {"PATH", "LIB"} |-> <<"sys">>],
              [x \in {"LIB"} |-> <<"sys">>]}

VersionSet == {PYTHON_VERSIONS[k] : k \in 1..Len(PYTHON_VERSIONS)}

StaleFile(v) == BuildPath(v) \o <<<<"stale", ".", "obj">>>>

\* The file system with the interpreter roots, virtual environments and
\* build trees of earlier runs that exist at the start.
StartDirs(roots, venvs, stale) ==
    {<<>>, ROOT_DIR, <<<<"C:">>>>, <<<<"TEMP">>>>}
    \cup {PythonDir(v) : v \in roots}
    \cup {VenvDir(v) : v \in venvs}
    \cup UNION {Prefixes(GeneratorsDir(v)) : v \in stale}

StartFiles(stale) == {StaleFile(v) : v \in stale}

InitProgram ==
    /\ cwd = ROOT_DIR
    /\ wheels = {} /\ calls = <<>> /\ exc = "none" /\ scopes = <<>>
    /\ failed_at = "none"
    /\ kwargs = EmptyDict /\ pd = NewPushDir(NonePath, FALSE) /\ mode = "with"
    /\ env0 = environ /\ cwd0 = cwd /\ touched = {} /\ outcome = "none"
    /\ nsteps = 0 /\ ncalls = 0

\* What the run reads and what its tools produce, as the record `world`.
World(manifest, produced, generators, generator_env, d, f) ==
    [manifest |-> manifest, produced |-> produced, generators |-> generators,
     generator_env |-> generator_env, dirs0 |-> d, files0 |-> f]

\* Manifest and build output together: every manifest with a few build
\* outputs, and every build output with a few manifests.
SomeManifests == {<<>>, <<"a", "b">>, <<"a", "\n", "b">>}
SomeProduced == {{}, {RootCpp, ModTxt, GenTxt}}
BuildInputs ==
    (Manifests \X SomeProduced) \cup (SomeManifests \X SUBSET ProducedUniverse)

\* python windows_build_wheels.py
Init ==
    /\ environ \in StartEnvs
    /\ \E roots \in SUBSET VersionSet, venvs \in {{}, {V27}, VersionSet},
          stale \in {{}, VersionSet} :
          /\ dirs = StartDirs(roots, venvs, stale)
          /\ files = StartFiles(stale)
    /\ \E manifest \in SomeManifests, produced \in SomeProduced,
          generators \in BOOLEAN, generator_env \in GeneratorEnvs :
          /\ (produced \cap {GenTxt, GenXml} # {}) => generators
          /\ world = World(manifest, produced, generators, generator_env, dirs, files)
    /\ bw = NewBuild(<<>>, 1, "build_wheels", FALSE)
    /\ pc = "prep_check"
    /\ InitProgram

\* build_wheel(python_version, single_wheel) called on its own.
InitWheel ==
    /\ environ \in StartEnvs
    /\ \E v \in VersionSet, single_wheel \in BOOLEAN :
          bw = NewBuild(v, 0, "direct", single_wheel)
    /\ \E stale \in {{}, VersionSet} :
          /\ dirs = StartDirs(VersionSet, VersionSet, stale)
          /\ files = StartFiles(stale)
    /\ \E inp \in BuildInputs, generators \in BOOLEAN,
          generator_env \in GeneratorEnvs :
          /\ (inp[2] \cap {GenTxt, GenXml} # {}) => generators
          /\ world = World(inp[1], inp[2], generators, generator_env, dirs, files)
    /\ pc = "bw_env"
    /\ InitProgram

MultiWheel ==
    \/ MwTmp \/ MwWrite \/ MwQuery \/ MwParse \/ MwFinally \/ MwEnter \/ MwCmake
    \/ MwNinja \/ MwExit \/ MwRead \/ MwConfigure \/ MwBdist \/ MwClean

SingleWheel == SwConfigure \/ SwBdist \/ SwClean

BuildWheelCommon == BwEnv \/ BwDeps \/ BwRmtree \/ BwCleanup \/ BwRmGenerators \/ BwExit

NextWheel == BuildWheelCommon \/ SingleWheel \/ MultiWheel

Next ==
    \/ PrepCheck \/ PrepVenv \/ PrepPip
    \/ SaEnter \/ SaPip \/ SaCmake \/ SaNinja \/ SaExit
    \/ BuildWheelCommon \/ MultiWheel

Spec == Init /\ [][Next]_vars

SpecWheel == InitWheel /\ [][NextWheel]_vars


(***************************************************************************)
(* Properties.                                                             *)
(***************************************************************************)
Last(seq) == seq[Len(seq)]

\* C1: push_env is exception-safe: when the operation wrapped by the scope
\* raises, the environment after the scope equals the environment before
\* the scope (same keys, same values).  Refuted: the generator has no
\* try/finally around its yield.
C1_ExceptionSafe == outcome = "raised" => environ = env0

C3_UnsetAndSet ==
    /\ pc = "env_body" =>
          \A v \in DOMAIN kwargs \ touched :
              IF kwargs[v] = None
              THEN v \notin DOMAIN environ
              ELSE v \in DOMAIN environ /\ environ[v] = kwargs[v]
    /\ pc = "env_done" =>
          \A v \in DOMAIN kwargs :
              (kwargs[v] = None /\ v \in DOMAIN env0) =>
                  (v \in DOMAIN environ /\ environ[v] = env0[v])

\* PATH existed and was unset for the scope, FOO was set to the empty
\* string, and the scope has been left normally.
C3_Witness ==
    /\ pc = "env_done"
    /\ DOMAIN kwargs = {"PATH", "FOO"}
    /\ kwargs["PATH"] = None /\ kwargs["FOO"] = <<>>
    /\ "PATH" \in DOMAIN env0 /\ "PATH" \in DOMAIN environ
    /\ environ["PATH"] = env0["PATH"]

\* C4: restoration is total replacement: after a normal exit the environment
\* equals the snapshot taken before entry, whatever the wrapped operation
\* set, changed or deleted, named in the request or not.
C4_TotalReplacement == pc = "env_done" => environ = env0

\* The wrapped operation created a variable that neither existed before
\* nor was named in the request, and the scope has been left normally.
C4_Witness ==
    /\ pc = "env_done"
    /\ \E v \in touched : v \notin DOMAIN kwargs /\ v \notin DOMAIN env0
    /\ nsteps = MaxBodySteps
    /\ environ = env0

FailedCall(c) == c.status # 0

\* C5: a non-zero exit status aborts the run at once: a failed call is the
\* last external process ever invoked and leaves the program aborted with
\* CalledProcessError; and the failing step rolls nothing back: the wheels,
\* the directories and (but for the temporary helper) the files stay.
C5_AbortsWithoutRollback ==
    /\ [](\A k \in 1..Len(calls) :
            FailedCall(calls[k]) =>
                (k = Len(calls) /\ pc = "aborted" /\ exc = "CalledProcessError"))
    /\ [][(calls' # calls /\ FailedCall(Last(calls'))) =>
            (/\ wheels' = wheels
             /\ dirs' = dirs
             /\ files' \ {TempFile} = files \ {TempFile})]_vars

\* A call failed while building the second version: the first version's
\* wheels are in place and the build tree removed before stays removed.
C5_Witness ==
    /\ pc = "aborted" /\ calls # <<>> /\ FailedCall(Last(calls))
    /\ bw.python_version = V35
    /\ \E w \in wheels : w[1] = V27
    /\ BuildPath(V35) \in world.dirs0 /\ BuildPath(V35) \notin dirs

\* The component names of a manifest: its non-empty lines.
RECURSIVE ComponentNames(_)
ComponentNames(content) ==
    IF content = <<>> THEN <<>>
    ELSE LET nl   == {k \in 1..Len(content) : content[k] = "\n"}
             e    == IF nl = {} THEN Len(content) + 1
                     ELSE CHOOSE k \in nl : \A j \in nl : k <= j
             name == SubSeq(content, 1, e - 1)
             rest == SubSeq(content, e + 1, Len(content))
         IN  (IF name = <<>> THEN <<>> ELSE <<name>>) \o ComponentNames(rest)

\* A manifest of component names: non-empty names, each ending its line.
WellFormedManifest(content) ==
    /\ content # <<>> => (content[1] # "\n" /\ content[Len(content)] = "\n")
    /\ \A k \in 1..(Len(content) - 1) : ~(content[k] = "\n" /\ content[k + 1] = "\n")

IsConfigure(c) == c.what = "setup_py_configure"
IsBdist(c) == c.what \in {"bdist_wheel", "bdist_wheel_reuse"}
IsSharedPass(c) == c.what = "ITK" /\ c.tool \in {"cmake", "ninja"}

\* Every configure / bdist_wheel call of the running build_wheel is made.
WheelsBuilt == pc \in {"bw_cleanup", "bw_rmgen", "bw_exit", "done"}

\* C6: invocation counts by mode: single_wheel makes exactly one configure
\* call, named "itk", one bdist_wheel call and no shared cmake+ninja pass; a
\* manifest of N component names makes one shared cmake+ninja pass and then
\* exactly N configure / bdist_wheel pairs, one per component name.
\* Refuted in the multi-wheel mode: the pairs are one per character of the
\* manifest's first line.
C6_InvocationCounts ==
    (WheelsBuilt /\ WellFormedManifest(world.manifest)) =>
        LET configures == SelectSeq(calls, IsConfigure)
            bdists     == SelectSeq(calls, IsBdist)
            shared     == SelectSeq(calls, IsSharedPass)
            names      == ComponentNames(world.manifest)
        IN  IF bw.single_wheel
            THEN /\ Len(configures) = 1 /\ configures[1].arg = <<"itk">>
                 /\ Len(bdists) = 1
                 /\ shared = <<>>
            ELSE /\ Len(shared) = 2
                 /\ shared[1].tool = "cmake" /\ shared[2].tool = "ninja"
                 /\ Len(configures) = Len(names)
                 /\ Len(bdists) = Len(names)
                 /\ \A k \in 1..Len(names) :
                       configures[k].arg = names[k] /\ bdists[k].arg = names[k]

\* The three extensions the cleanup is specified to remove.
DesignatedExtensions == {<<".", "cpp">>, <<".", "xml">>, <<".", "obj">>}

CleanupDone == pc \in {"bw_exit", "done"}

\* C7 as stated: after the cleanup every file of the build tree with a
\* designated extension is gone, every other file is still there, and
\* Wrapping/Generators is absent.
C7_CleanupAsStated ==
    CleanupDone =>
        LET v == bw.python_version
        IN  /\ \A f \in ProducedFiles(v) :
                  IF Splitext(Last(f)) \in DesignatedExtensions
                  THEN f \notin files
                  ELSE f \in files
            /\ GeneratorsDir(v) \notin dirs

\* C7 (amended): after the cleanup every file of the build tree with a
\* designated extension is gone, every other file outside
\* Wrapping/Generators is still there, and Wrapping/Generators is absent
\* with everything that was under it.
C7_Cleanup ==
    CleanupDone =>
        LET v == bw.python_version
        IN  /\ \A f \in ProducedFiles(v) :
                  IF \/ Splitext(Last(f)) \in DesignatedExtensions
                     \/ IsUnder(f, GeneratorsDir(v))
                  THEN f \notin files
                  ELSE f \in files
            /\ \A q \in dirs \cup files : ~IsUnder(q, GeneratorsDir(v))
            /\ {f \in files : IsUnder(f, BuildPath(v))} \subseteq ProducedFiles(v)

\* The tree held files of each extension, a dot file, a file with two
\* dots and a file under Wrapping/Generators when the cleanup ran.
C7_Witness ==
    /\ CleanupDone
    /\ world.produced = ProducedUniverse
    /\ BuildPath(bw.python_version) \o ModTxt \in files
    /\ BuildPath(bw.python_version) \o DotCpp \in files
    /\ BuildPath(bw.python_version) \o ModObj \notin files

Phase(c) ==
    IF c.tool = "virtualenv" \/ c.arg = <<"scikit-build">> THEN 1
    ELSE IF c.what = "standalone" \/ c.arg = <<"ninja">> THEN 2
    ELSE 3

VersionIndex(v) == CHOOSE k \in 1..Len(PYTHON_VERSIONS) : PYTHON_VERSIONS[k] = v

RootsMissing == {v \in VersionSet : PythonDir(v) \notin world.dirs0}

\* C8: the calls of build_wheels come in three phases in this order: the
\* preparation of all three versions, the standalone cmake+ninja build
\* (once), build_wheel for each version in turn.  With an interpreter root
\* missing no call of the later phases is ever made, nothing that existed
\* is removed, and a run in which no process failed ends in the 'not found'
\* error of prepare_build_env.
C8_Ordering ==
    LET later == {k \in 1..Len(calls) : Phase(calls[k]) >= 2}
        built == {k \in 1..Len(calls) : Phase(calls[k]) = 3}
        standalone(tool) ==
            {k \in 1..Len(calls) :
                calls[k].what = "standalone" /\ calls[k].tool = tool}
    IN  /\ \A j, k \in 1..Len(calls) :
              j < k => /\ Phase(calls[j]) <= Phase(calls[k])
                       /\ (j \in built =>
                             VersionIndex(calls[j].version)
                                 <= VersionIndex(calls[k].version))
        /\ later # {} =>
              \A v \in VersionSet : \E k \in 1..Len(calls) \ later :
                  calls[k] = Cmd("pip", "install", <<"scikit-build">>, v, 0)
        /\ Cardinality(standalone("cmake")) <= 1
        /\ Cardinality(standalone("ninja")) <= 1
        /\ built # {} =>
              \E j, k \in 1..Len(calls) \ built :
                  /\ j < k
                  /\ calls[j] = Cmd("cmake", "standalone", <<>>, <<>>, 0)
                  /\ calls[k] = Cmd("ninja", "standalone", <<>>, <<>>, 0)
        /\ RootsMissing # {} =>
              /\ later = {}
              /\ world.dirs0 \subseteq dirs /\ files = world.files0
              /\ wheels = {}
              /\ pc \in {"prep_check", "prep_venv", "prep_pip", "aborted"}
              /\ (pc = "aborted" /\ \A k \in 1..Len(calls) : ~FailedCall(calls[k]))
                    => (exc = "FileNotFoundError" /\ failed_at = "prep_check")

\* The root of the third version is missing: the run stopped with the
\* error after preparing the other two, with the old build trees in place.
C8_Witness ==
    /\ pc = "aborted" /\ exc = "FileNotFoundError" /\ failed_at = "prep_check"
    /\ RootsMissing = {V36}
    /\ Len(calls) >= 2
    /\ BuildPath(V27) \in dirs /\ StaleFile(V27) \in files

QueryStep == {"mw_tmp", "mw_write", "mw_query", "mw_parse", "mw_finally"}

FirstLine(content) ==
    LET lines == {n \in 0..Len(content) :
                     \A k \in 1..(n - 1) : content[k] # "\n"}
    IN  SubSeq(content, 1, CHOOSE n \in lines : \A m \in lines : m <= n)

IsWheelStep(c) == c.what \in {"setup_py_configure", "bdist_wheel_reuse", "clean"}

\* C10: the multi-wheel mode reads the first line of the manifest and makes
\* one configure / bdist_wheel / clean triple per character of it (the
\* trailing newline included), in order, each naming that one character and
\* each reusing the shared build tree.
C10_PerCharacter ==
    (WheelsBuilt /\ ~bw.single_wheel) =>
        LET line  == FirstLine(world.manifest)
            steps == SelectSeq(calls, IsWheelStep)
            v     == bw.python_version
        IN  /\ Len(steps) = 3 * Len(line)
            /\ \A k \in 1..Len(line) :
                  /\ steps[3 * k - 2] =
                        Cmd("python", "setup_py_configure", <<line[k]>>, v, 0)
                  /\ steps[3 * k - 1] =
                        Cmd("python", "bdist_wheel_reuse", <<line[k]>>, v, 0)
                  /\ steps[3 * k] = Cmd("python", "clean", <<>>, v, 0)
                  /\ <<v, <<line[k]>>>> \in wheels

\* The manifest holds two names on two lines; the build made two triples,
\* for "a" and for the newline.
C10_Witness ==
    /\ pc = "done" /\ ~bw.single_wheel
    /\ world.manifest = <<"a", "\n", "b">>
    /\ Len(SelectSeq(calls, IsWheelStep)) = 6
    /\ <<bw.python_version, <<"\n">>>> \in wheels

=============================================================================
